---- MODULE Spec2Model ----
(***************************************************************************)
(* NeuralBridge (src/scripts/neural_bridge.py): the sensor cache, the      *)
(* processing cycle, the status tick and the pure stages of the pipeline.  *)
(*                                                                         *)
(* Scheduling.  The node guards its cache with threading.Lock and its      *)
(* cycle with the flag self.processing, so the callbacks are modelled as   *)
(* the executor may dispatch them concurrently: every statement that       *)
(* touches shared state (self.processing, self.lock, the cache fields, a   *)
(* publisher) is one step.  A serial dispatch is one of the behaviours.    *)
(*                                                                         *)
(* A sensor writer's with block (acquire, one assignment, release) is one  *)
(* step, enabled when the lock is free.  A frame keeps a local only while  *)
(* a later line of processing_callback reads it.                           *)
(*                                                                         *)
(* Numbers.  Ranges, network outputs and confidences are in tenths         *)
(* (0.7 is 7); velocities are in hundredths (0.27 is 27).  A normalised    *)
(* range is the exact fraction [num, den]; float32 rounding is not         *)
(* modelled.                                                               *)
(***************************************************************************)
EXTENDS Integers, Sequences, FiniteSets, TLC

VARIABLES
    model_loaded,   \* self.model_loaded
    processing,     \* self.processing
    lock,           \* self.lock: 0 when free, else the cycle holding it
    cache,          \* current_laser_scan, current_imu, current_odometry
    pc,             \* per dispatched processing_callback: the line it is at
    frame,          \* per dispatched processing_callback: its local variables
    published,      \* the message the latest step handed to a publisher
    crashed,        \* an exception left a callback and reached rclpy.spin
    call,           \* a stage applied on its own: the arguments
    ret             \* a stage applied on its own: the value returned

vars == <<model_loaded, processing, lock, cache, pc, frame, published, crashed, call, ret>>

nodevars == <<model_loaded, processing, lock, cache, pc, frame, published, crashed>>

None == [none |-> TRUE]

\* ---------------------------------------------------------------- bounds
NumCycles == 2
MaxRanges == 3
MaxInputSize == 5
MaxOutputLen == 5
MaxNeurons == 2
MaxSensorLen == 3

\* ------------------------------------------------- configuration (l.48-59)
input_size == 100
output_size == 10
confidence_threshold == 7

Cycles == 1..NumCycles

Min(a, b) == IF a < b THEN a ELSE b

Zero == [num |-> 0, den |-> 1]

Zeros(n) == [i \in 1..n |-> Zero]

\* ------------------------------------------------------------- messages
LaserScan(rs, lo, hi) == [ranges |-> rs, range_min |-> lo, range_max |-> hi]

\* Scans the writers deliver in the node specification.
ScanMsgs == { LaserScan(<<2, 4, 10>>, 1, 10), LaserScan(<<>>, 1, 10) }

ImuMsgs == { [imu |-> 1] }

OdomMsgs == { [odom |-> 1] }

\* A message object defines neither __bool__ nor __len__: only None is falsy.
Truthy(msg) == msg # None

\* ------------------------------------------------------ preprocess (296-340)
\* InRange with the upper bound left out.
InRangeNoUpperBound(laser, r) == r >= laser.range_min

InRange(laser, r) == r >= laser.range_min /\ r <= laser.range_max

\* valid_ranges that zeroes an out-of-range sample in place instead of removing it.
valid_ranges_zeroed(laser) ==
    [j \in 1..Len(laser.ranges) |->
        IF InRange(laser, laser.ranges[j]) THEN laser.ranges[j] ELSE 0]

valid_ranges(laser) == SelectSeq(laser.ranges, LAMBDA r : InRange(laser, r))

normalized_ranges(n, laser) ==
    LET v == valid_ranges(laser)
        k == Min(n, Len(v))
    IN  [i \in 1..k |-> [num |-> v[i], den |-> laser.range_max]]

padded_ranges(n, laser) ==
    LET nr == normalized_ranges(n, laser)
    IN  nr \o Zeros(n - Len(nr))

\* The input vector built only when an inertial message came with the scan.
preprocess_needs_imu(n, laser, imu, odom) ==
    LET input_data ==
            IF Truthy(laser) /\ Truthy(imu) /\ Len(laser.ranges) > 0
            THEN IF Len(valid_ranges(laser)) > 0
                 THEN padded_ranges(n, laser)
                 ELSE Zeros(n)
            ELSE Zeros(n)
    IN  IF Len(input_data) > n THEN SubSeq(input_data, 1, n)
        ELSE IF Len(input_data) < n THEN input_data \o Zeros(n - Len(input_data))
        ELSE input_data

preprocess_sensor_data(n, laser, imu, odom) ==
    LET input_data ==
            IF Truthy(laser) /\ Len(laser.ranges) > 0
            THEN IF Len(valid_ranges(laser)) > 0
                 THEN padded_ranges(n, laser)
                 ELSE Zeros(n)
            ELSE Zeros(n)
    IN  IF Len(input_data) > n THEN SubSeq(input_data, 1, n)
        ELSE IF Len(input_data) < n THEN input_data \o Zeros(n - Len(input_data))
        ELSE input_data

\* ------------------------------------------------------- inference (342-368)
Peak(k, hi, lo) == [i \in 1..output_size |-> IF i = k THEN hi ELSE lo]

\* np.random.random(output_size): the draws the node specification follows.
RandomOutputs == { Peak(1, 9, 1), Peak(3, 2, 1) }

\* self.model is None: the input is not read, the output is a random draw.
neural_inference(input_data) == RandomOutputs

\* ----------------------------------------------------- postprocess (370-416)
RECURSIVE SeqMax(_)
SeqMax(v) ==
    IF Len(v) = 1 THEN v[1]
    ELSE LET m == SeqMax(Tail(v)) IN IF v[1] >= m THEN v[1] ELSE m

\* ArgMax resolving a tie to the last index holding the maximum.
ArgMaxLastWins(v) == CHOOSE i \in 1..Len(v) :
                         /\ v[i] = SeqMax(v)
                         /\ \A j \in (i + 1)..Len(v) : v[j] # SeqMax(v)

\* np.argmax: the first index holding the maximum.
ArgMax(v) == CHOOSE i \in 1..Len(v) :
                 /\ v[i] = SeqMax(v)
                 /\ \A j \in 1..(i - 1) : v[j] # SeqMax(v)

decisions == <<"forward", "left", "right", "stop">>

interpret_movement(output) ==
    IF Len(output) >= 4 THEN decisions[ArgMax(SubSeq(output, 1, 4))] ELSE "unknown"

calculate_safety_score(output) ==
    IF Len(output) >= 5 THEN output[Len(output)] ELSE 5

\* The bands with each boundary counted into the upper band.
interpret_behavior_inclusive(output) ==
    LET confidence == SeqMax(output)
    IN  IF confidence >= 8 THEN "confident_navigation"
        ELSE IF confidence >= 5 THEN "cautious_navigation"
        ELSE IF confidence >= 3 THEN "exploration"
        ELSE "uncertain"

interpret_behavior(output) ==
    LET confidence == SeqMax(output)
    IN  IF confidence > 8 THEN "confident_navigation"
        ELSE IF confidence > 5 THEN "cautious_navigation"
        ELSE IF confidence > 3 THEN "exploration"
        ELSE "uncertain"

\* The decision with the score of the selected class as its confidence.
postprocess_class_confidence(raw_output) ==
    [ raw_output         |-> raw_output,
      movement_decision  |-> interpret_movement(raw_output),
      confidence         |-> SeqMax(SubSeq(raw_output, 1, Min(4, Len(raw_output)))),
      safety_score       |-> calculate_safety_score(raw_output),
      behavioral_context |-> interpret_behavior(raw_output) ]

postprocess_neural_output(raw_output) ==
    [ raw_output         |-> raw_output,
      movement_decision  |-> interpret_movement(raw_output),
      confidence         |-> SeqMax(raw_output),
      safety_score       |-> calculate_safety_score(raw_output),
      behavioral_context |-> interpret_behavior(raw_output) ]

\* ------------------------------------------------------- messages out
OutputMsg(processed_output) ==
    [topic |-> "/eos/neural_output", data |-> processed_output.raw_output]

\* The command with the linear and angular scale factors exchanged.
TwistSwappedScales(threshold, processed_output) ==
    LET movement   == processed_output.movement_decision
        confidence == processed_output.confidence
    IN  IF movement = "forward" /\ confidence > threshold
        THEN [linear_x |-> 5 * confidence, angular_z |-> 0]
        ELSE IF movement = "left" /\ confidence > threshold
        THEN [linear_x |-> 0, angular_z |-> 3 * confidence]
        ELSE IF movement = "right" /\ confidence > threshold
        THEN [linear_x |-> 0, angular_z |-> 0 - 3 * confidence]
        ELSE [linear_x |-> 0, angular_z |-> 0]

\* The command with the turning directions exchanged.
TwistMirrored(threshold, processed_output) ==
    LET movement   == processed_output.movement_decision
        confidence == processed_output.confidence
    IN  IF movement = "forward" /\ confidence > threshold
        THEN [linear_x |-> 3 * confidence, angular_z |-> 0]
        ELSE IF movement = "left" /\ confidence > threshold
        THEN [linear_x |-> 0, angular_z |-> 0 - 5 * confidence]
        ELSE IF movement = "right" /\ confidence > threshold
        THEN [linear_x |-> 0, angular_z |-> 5 * confidence]
        ELSE [linear_x |-> 0, angular_z |-> 0]

\* The command with a confidence equal to the threshold passing the gate.
TwistAtThreshold(threshold, processed_output) ==
    LET movement   == processed_output.movement_decision
        confidence == processed_output.confidence
    IN  IF movement = "forward" /\ confidence >= threshold
        THEN [linear_x |-> 3 * confidence, angular_z |-> 0]
        ELSE IF movement = "left" /\ confidence >= threshold
        THEN [linear_x |-> 0, angular_z |-> 5 * confidence]
        ELSE IF movement = "right" /\ confidence >= threshold
        THEN [linear_x |-> 0, angular_z |-> 0 - 5 * confidence]
        ELSE [linear_x |-> 0, angular_z |-> 0]

\* Twist() is zero-initialised; velocities in hundredths.
Twist(threshold, processed_output) ==
    LET movement   == processed_output.movement_decision
        confidence == processed_output.confidence
    IN  IF movement = "forward" /\ confidence > threshold
        THEN [linear_x |-> 3 * confidence, angular_z |-> 0]
        ELSE IF movement = "left" /\ confidence > threshold
        THEN [linear_x |-> 0, angular_z |-> 5 * confidence]
        ELSE IF movement = "right" /\ confidence > threshold
        THEN [linear_x |-> 0, angular_z |-> 0 - 5 * confidence]
        ELSE IF movement = "stop" \/ confidence < 3
        THEN [linear_x |-> 0, angular_z |-> 0]
        ELSE [linear_x |-> 0, angular_z |-> 0]

NavMsg(processed_output) ==
    [topic |-> "/eos/nav_suggestion", data |-> Twist(confidence_threshold, processed_output)]

\* The status text without the test of the processing flag.
StatusMsgIgnoresFlag ==
    [topic |-> "/eos/neural_status",
     data  |-> IF model_loaded THEN "READY" ELSE "ERROR"]

StatusMsg ==
    [topic |-> "/eos/neural_status",
     data  |-> IF model_loaded
               THEN IF processing THEN "PROCESSING" ELSE "READY"
               ELSE "ERROR"]

\* ------------------------------------------------------------ the node
EmptyFrame ==
    [ laser_data |-> None, imu_data |-> None, odom_data |-> None,
      neural_input |-> <<>>, neural_output |-> <<>>, processed_output |-> None,
      exc |-> FALSE ]

\* No message was handed to a publisher.
NoMsg == [topic |-> "none"]

NoCall == [fn |-> "none"]

NoRet == [done |-> FALSE]

\* initialize_neural_model with a handler that leaves the model unloaded.
initialize_neural_model_fatal(load_ok) == IF load_ok THEN TRUE ELSE FALSE

\* initialize_neural_model: both the try body and the handler set the flag.
initialize_neural_model(load_ok) == IF load_ok THEN TRUE ELSE TRUE

Init ==
    /\ \E load_ok \in BOOLEAN : model_loaded = initialize_neural_model(load_ok)
    /\ processing = FALSE
    /\ lock = 0
    /\ cache = [laser |-> None, imu |-> None, odom |-> None]
    /\ pc = [t \in Cycles |-> "idle"]
    /\ frame = [t \in Cycles |-> EmptyFrame]
    /\ published = NoMsg
    /\ crashed = FALSE
    /\ call = NoCall
    /\ ret = NoRet

Running == ~crashed

\* ---------------------------------------------- sensor writers (196-239)
\* laser_callback dropping the other two entries when a new scan arrives.
laser_callback_resets(msg) ==
    /\ Running
    /\ lock = 0
    /\ cache' = [laser |-> msg, imu |-> None, odom |-> None]
    /\ published' = NoMsg
    /\ UNCHANGED <<model_loaded, processing, lock, pc, frame, crashed, call, ret>>

laser_callback(msg) ==
    /\ Running
    /\ lock = 0
    /\ cache' = [cache EXCEPT !.laser = msg]
    /\ published' = NoMsg
    /\ UNCHANGED <<model_loaded, processing, lock, pc, frame, crashed, call, ret>>

\* imu_callback writing the field without taking the lock.
imu_callback_unlocked(msg) ==
    /\ Running
    /\ cache' = [cache EXCEPT !.imu = msg]
    /\ published' = NoMsg
    /\ UNCHANGED <<model_loaded, processing, lock, pc, frame, crashed, call, ret>>

imu_callback(msg) ==
    /\ Running
    /\ lock = 0
    /\ cache' = [cache EXCEPT !.imu = msg]
    /\ published' = NoMsg
    /\ UNCHANGED <<model_loaded, processing, lock, pc, frame, crashed, call, ret>>

odom_callback(msg) ==
    /\ Running
    /\ lock = 0
    /\ cache' = [cache EXCEPT !.odom = msg]
    /\ published' = NoMsg
    /\ UNCHANGED <<model_loaded, processing, lock, pc, frame, crashed, call, ret>>

\* ------------------------------------- external command (241-251, 464-480)
CommandData == { <<>>, <<1, 2, 3>> }

\* A command handler that resets the reentrancy flag.
neural_command_callback_resets(data) ==
    /\ Running
    /\ processing' = FALSE
    /\ published' = NoMsg
    /\ UNCHANGED <<model_loaded, lock, cache, pc, frame, crashed, call, ret>>

neural_command_callback(data) ==
    /\ Running
    /\ published' = NoMsg
    /\ UNCHANGED <<model_loaded, processing, lock, cache, pc, frame, crashed, call, ret>>

\* ------------------------------------------------- status tick (450-462)
status_callback ==
    /\ Running
    /\ published' = StatusMsg
    /\ UNCHANGED <<model_loaded, processing, lock, cache, pc, frame, crashed, call, ret>>

\* ------------------------------------------ processing_callback (253-294)
\* The timer dispatches processing_callback in context t.
TimerFire(t) ==
    /\ Running
    /\ pc[t] = "idle"
    /\ pc' = [pc EXCEPT ![t] = "l255"]
    /\ published' = NoMsg
    /\ UNCHANGED <<model_loaded, processing, lock, cache, frame, crashed, call, ret>>

\* Guard with the reentrancy test left out: only model_loaded is consulted.
GuardIgnoresFlag(t) ==
    /\ Running
    /\ pc[t] = "l255"
    /\ pc' = [pc EXCEPT ![t] = IF ~model_loaded THEN "idle" ELSE "l258"]
    /\ published' = NoMsg
    /\ UNCHANGED <<model_loaded, processing, lock, cache, frame, crashed, call, ret>>

\* l.255-256: if not self.model_loaded or self.processing: return
Guard(t) ==
    /\ Running
    /\ pc[t] = "l255"
    /\ pc' = [pc EXCEPT ![t] = IF ~model_loaded \/ processing THEN "idle" ELSE "l258"]
    /\ published' = NoMsg
    /\ UNCHANGED <<model_loaded, processing, lock, cache, frame, crashed, call, ret>>

\* l.258: self.processing = True
SetProcessing(t) ==
    /\ Running
    /\ pc[t] = "l258"
    /\ processing' = TRUE
    /\ pc' = [pc EXCEPT ![t] = "l262"]
    /\ published' = NoMsg
    /\ UNCHANGED <<model_loaded, lock, cache, frame, crashed, call, ret>>

\* l.262-263: with self.lock: laser_data = self.current_laser_scan
AcquireReadLaser(t) ==
    /\ Running
    /\ pc[t] = "l262"
    /\ lock = 0
    /\ lock' = t
    /\ frame' = [frame EXCEPT ![t].laser_data = cache.laser]
    /\ pc' = [pc EXCEPT ![t] = "l264"]
    /\ published' = NoMsg
    /\ UNCHANGED <<model_loaded, processing, cache, crashed, call, ret>>

\* l.264: imu_data = self.current_imu
ReadImu(t) ==
    /\ Running
    /\ pc[t] = "l264"
    /\ frame' = [frame EXCEPT ![t].imu_data = cache.imu]
    /\ pc' = [pc EXCEPT ![t] = "l265"]
    /\ published' = NoMsg
    /\ UNCHANGED <<model_loaded, processing, lock, cache, crashed, call, ret>>

\* CheckData with the sufficiency test left out.
CheckDataNeverSkips(laser_data) == "l274"

\* l.268: if not laser_data: the skip of l.269-271, else the stages of l.274-284
CheckData(laser_data) == IF ~Truthy(laser_data) THEN "l270" ELSE "l274"

\* ReadOdomRelease leaving the with block without releasing the lock.
ReadOdomKeepsLock(t) ==
    /\ Running
    /\ pc[t] = "l265"
    /\ frame' = [frame EXCEPT ![t].odom_data = cache.odom]
    /\ pc' = [pc EXCEPT ![t] = CheckData(frame[t].laser_data)]
    /\ published' = NoMsg
    /\ UNCHANGED <<model_loaded, processing, lock, cache, crashed, call, ret>>

\* l.265-268: odom_data = self.current_odometry, the with block releases the
\* lock, and the test of the local laser_data picks the branch
ReadOdomRelease(t) ==
    /\ Running
    /\ pc[t] = "l265"
    /\ frame' = [frame EXCEPT ![t].odom_data = cache.odom]
    /\ lock' = 0
    /\ pc' = [pc EXCEPT ![t] = CheckData(frame[t].laser_data)]
    /\ published' = NoMsg
    /\ UNCHANGED <<model_loaded, processing, cache, crashed, call, ret>>

\* l.270-271: self.processing = False; return (the finally clause still runs)
SkipClear(t) ==
    /\ Running
    /\ pc[t] = "l270"
    /\ processing' = FALSE
    /\ frame' = [frame EXCEPT ![t] = EmptyFrame]
    /\ pc' = [pc EXCEPT ![t] = "l294"]
    /\ published' = NoMsg
    /\ UNCHANGED <<model_loaded, lock, cache, crashed, call, ret>>

\* Preprocess reading the cache field instead of the snapshot.
PreprocessReadsCache(t) ==
    /\ Running
    /\ pc[t] = "l274"
    /\ frame' = [frame EXCEPT ![t] =
                    [EmptyFrame EXCEPT !.neural_input =
                        preprocess_sensor_data(input_size, cache.laser, cache.imu, cache.odom)]]
    /\ pc' = [pc EXCEPT ![t] = "l277"]
    /\ published' = NoMsg
    /\ UNCHANGED <<model_loaded, processing, lock, cache, crashed, call, ret>>

\* l.274: neural_input = self.preprocess_sensor_data(laser_data, imu_data, odom_data)
\* The snapshot is not read again: the frame keeps only what a later line reads.
Preprocess(t) ==
    /\ Running
    /\ pc[t] = "l274"
    /\ frame' = [frame EXCEPT ![t] =
                    [EmptyFrame EXCEPT !.neural_input =
                        preprocess_sensor_data(input_size, frame[t].laser_data,
                                               frame[t].imu_data, frame[t].odom_data)]]
    /\ pc' = [pc EXCEPT ![t] = "l277"]
    /\ published' = NoMsg
    /\ UNCHANGED <<model_loaded, processing, lock, cache, crashed, call, ret>>

\* l.277: neural_output = self.neural_inference(neural_input)
Inference(t) ==
    /\ Running
    /\ pc[t] = "l277"
    /\ \E out \in neural_inference(frame[t].neural_input) :
           frame' = [frame EXCEPT ![t] = [EmptyFrame EXCEPT !.neural_output = out]]
    /\ pc' = [pc EXCEPT ![t] = "l280"]
    /\ published' = NoMsg
    /\ UNCHANGED <<model_loaded, processing, lock, cache, crashed, call, ret>>

\* l.280: processed_output = self.postprocess_neural_output(neural_output)
Postprocess(t) ==
    /\ Running
    /\ pc[t] = "l280"
    /\ frame' = [frame EXCEPT ![t] =
                    [EmptyFrame EXCEPT !.processed_output =
                        postprocess_neural_output(frame[t].neural_output)]]
    /\ pc' = [pc EXCEPT ![t] = "l283"]
    /\ published' = NoMsg
    /\ UNCHANGED <<model_loaded, processing, lock, cache, crashed, call, ret>>

\* PublishOutput returning from the try body without the velocity command.
PublishOutputSkipsNav(t) ==
    /\ Running
    /\ pc[t] = "l283"
    /\ published' = OutputMsg(frame[t].processed_output)
    /\ frame' = [frame EXCEPT ![t] = EmptyFrame]
    /\ pc' = [pc EXCEPT ![t] = "l294"]
    /\ UNCHANGED <<model_loaded, processing, lock, cache, crashed, call, ret>>

\* l.283: self.publish_neural_output(processed_output)
PublishOutput(t) ==
    /\ Running
    /\ pc[t] = "l283"
    /\ published' = OutputMsg(frame[t].processed_output)
    /\ pc' = [pc EXCEPT ![t] = "l284"]
    /\ UNCHANGED <<model_loaded, processing, lock, cache, frame, crashed, call, ret>>

\* l.284: self.publish_navigation_suggestion(processed_output)
PublishNav(t) ==
    /\ Running
    /\ pc[t] = "l284"
    /\ published' = NavMsg(frame[t].processed_output)
    /\ frame' = [frame EXCEPT ![t] = EmptyFrame]
    /\ pc' = [pc EXCEPT ![t] = "l294"]
    /\ UNCHANGED <<model_loaded, processing, lock, cache, crashed, call, ret>>

Stages == {"l274", "l277", "l280", "l283", "l284"}

\* A stage raises an Exception: control leaves the try body for the handler
\* of l.290, which matches it.
Raise(t) ==
    /\ Running
    /\ pc[t] \in Stages
    /\ frame' = [frame EXCEPT ![t] = [EmptyFrame EXCEPT !.exc = TRUE]]
    /\ pc' = [pc EXCEPT ![t] = "l291"]
    /\ published' = NoMsg
    /\ UNCHANGED <<model_loaded, processing, lock, cache, crashed, call, ret>>

\* Except with a handler that logs and raises the exception again.
ExceptReraises(t) ==
    /\ Running
    /\ pc[t] = "l291"
    /\ pc' = [pc EXCEPT ![t] = "l294"]
    /\ published' = NoMsg
    /\ UNCHANGED <<model_loaded, processing, lock, cache, frame, crashed, call, ret>>

\* l.290-291: except Exception as e: the error is logged
Except(t) ==
    /\ Running
    /\ pc[t] = "l291"
    /\ frame' = [frame EXCEPT ![t].exc = FALSE]
    /\ pc' = [pc EXCEPT ![t] = "l294"]
    /\ published' = NoMsg
    /\ UNCHANGED <<model_loaded, processing, lock, cache, crashed, call, ret>>

\* Finally with the flag reset left out.
FinallyKeepsFlag(t) ==
    /\ Running
    /\ pc[t] = "l294"
    /\ crashed' = frame[t].exc
    /\ frame' = [frame EXCEPT ![t] = EmptyFrame]
    /\ pc' = [pc EXCEPT ![t] = "idle"]
    /\ published' = NoMsg
    /\ UNCHANGED <<model_loaded, processing, lock, cache, call, ret>>

\* l.293-294: finally: self.processing = False, and the callback returns;
\* an exception no handler took propagates to the executor after the clause.
Finally(t) ==
    /\ Running
    /\ pc[t] = "l294"
    /\ processing' = FALSE
    /\ crashed' = frame[t].exc
    /\ frame' = [frame EXCEPT ![t] = EmptyFrame]
    /\ pc' = [pc EXCEPT ![t] = "idle"]
    /\ published' = NoMsg
    /\ UNCHANGED <<model_loaded, lock, cache, call, ret>>

CycleStep(t) ==
    \/ Guard(t)
    \/ SetProcessing(t)
    \/ AcquireReadLaser(t)
    \/ ReadImu(t)
    \/ ReadOdomRelease(t)
    \/ SkipClear(t)
    \/ Preprocess(t)
    \/ Inference(t)
    \/ Postprocess(t)
    \/ PublishOutput(t)
    \/ PublishNav(t)
    \/ Except(t)
    \/ Finally(t)

Next ==
    \/ \E msg \in ScanMsgs : laser_callback(msg)
    \/ \E msg \in ImuMsgs : imu_callback(msg)
    \/ \E msg \in OdomMsgs : odom_callback(msg)
    \/ \E data \in CommandData : neural_command_callback(data)
    \/ status_callback
    \/ \E t \in Cycles : TimerFire(t) \/ Raise(t) \/ CycleStep(t)

Spec == Init /\ [][Next]_vars

\* Scheduling: a dispatched callback keeps running, and a thread waiting for
\* the lock gets it once it is released often enough.  Timer ticks, sensor
\* messages and exceptions are the environment's and carry no fairness.
Fairness ==
    \A t \in Cycles :
        /\ WF_vars(CycleStep(t))
        /\ SF_vars(AcquireReadLaser(t))

FairSpec == Spec /\ Fairness

\* -------------------------------------- preprocess_sensor_data on its own
SampleValues == {-1, 0, 2, 4, 10}

RECURSIVE SeqsUpTo(_, _)
SeqsUpTo(S, n) ==
    IF n = 0 THEN { <<>> }
    ELSE LET shorter == SeqsUpTo(S, n - 1)
         IN  shorter \cup { Append(q, x) : q \in { r \in shorter : Len(r) = n - 1 }, x \in S }

\* Scans of a ranging sensor: 0 <= range_min <= range_max, range_max > 0.
PreScans == { LaserScan(rs, lo, hi) : rs \in SeqsUpTo(SampleValues, MaxRanges),
                                      lo \in {0, 1}, hi \in {5, 10} }

PreCalls ==
    { [fn |-> "preprocess", n |-> n, laser |-> l, imu |-> i, odom |-> o] :
        n \in 1..MaxInputSize, l \in PreScans \cup {None},
        i \in ImuMsgs \cup {None}, o \in OdomMsgs \cup {None} }

PreInit ==
    /\ \E load_ok \in BOOLEAN : model_loaded = initialize_neural_model(load_ok)
    /\ processing = FALSE
    /\ lock = 0
    /\ cache = [laser |-> None, imu |-> None, odom |-> None]
    /\ pc = [t \in Cycles |-> "idle"]
    /\ frame = [t \in Cycles |-> EmptyFrame]
    /\ published = NoMsg
    /\ crashed = FALSE
    /\ call \in PreCalls
    /\ ret = NoRet

ApplyPreprocess ==
    /\ call.fn = "preprocess"
    /\ ~ret.done
    /\ ret' = [done |-> TRUE,
               value |-> preprocess_sensor_data(call.n, call.laser, call.imu, call.odom)]
    /\ UNCHANGED <<nodevars, call>>

PreNext == ApplyPreprocess

PreSpec == PreInit /\ [][PreNext]_vars

\* ======================================================================
\* Properties
\* ======================================================================

\* A cycle is in the Processing state from the step after l.258 until it
\* reaches a line that clears the flag (l.270 on the skip, l.294 otherwise).
Processing(t) ==
    pc[t] \in {"l262", "l264", "l265", "l270",
               "l274", "l277", "l280", "l283", "l284", "l291"}

Returned(t) == pc[t] \in {"idle", "l255", "l258"}

C2_DroppedTickIsNoOp ==
    [][ \A t \in Cycles :
          (pc[t] = "l255" /\ processing /\ pc'[t] # pc[t]) =>
             /\ pc'[t] = "idle"
             /\ frame'[t] = EmptyFrame
             /\ published' = NoMsg
             /\ \A u \in Cycles \ {t} : pc'[u] = pc[u]
             /\ UNCHANGED <<model_loaded, processing, lock, cache, frame, crashed>> ]_vars

C2_Witness ==
    \E t \in Cycles : \E u \in Cycles \ {t} :
        pc[t] = "l255" /\ processing /\ Processing(u)

\* C3: every cycle that has set the flag returns (normal completion, skip or
\* exception), the flag is clear at the moment it returns, and the flag is
\* never set while no processing_callback is between l.258 and its return.
C3_AlwaysBackToIdle ==
    /\ \A t \in Cycles : (pc[t] = "l262") ~> (pc[t] = "idle")
    /\ [][ \A t \in Cycles : (pc[t] = "l294" /\ pc'[t] = "idle") => ~processing' ]_vars
    /\ []((\A t \in Cycles : Returned(t)) => ~processing)

C3_Witness ==
    \E t \in Cycles : pc[t] = "l294" /\ processing /\ ~frame[t].exc
                      /\ \A u \in Cycles \ {t} : Returned(u)

\* C4: an exception raised in a stage is taken by the handler and never
\* leaves processing_callback; the handler leads only to the finally clause
\* and the return (no stage is run again); the failed cycle changes nothing
\* but the flag, and its context is left as one that never ran, so the next
\* tick starts from an empty frame and takes its own snapshot.
C4_FailureContained ==
    /\ [](~crashed)
    /\ [][ \A t \in Cycles :
             /\ (pc[t] \in Stages /\ pc'[t] = "l291") =>
                   UNCHANGED <<model_loaded, processing, lock, cache>>
             /\ (pc[t] = "l291" /\ pc'[t] # pc[t]) =>
                   (pc'[t] = "l294" /\ UNCHANGED <<model_loaded, processing, lock, cache>>)
             /\ (pc[t] = "l294" /\ pc'[t] # pc[t]) =>
                   (pc'[t] = "idle" /\ frame'[t] = EmptyFrame /\ UNCHANGED <<model_loaded, lock, cache>>)
             /\ (pc'[t] = "l264" /\ pc[t] # "l264") =>
                   (pc[t] = "l262" /\ frame'[t].laser_data = cache.laser) ]_vars
    /\ [](\A t \in Cycles : Returned(t) => frame[t] = EmptyFrame)

C4_Witness ==
    \E t \in Cycles : pc[t] = "l291" /\ frame[t].exc /\ processing

\* A snapshot without ranging samples: the stream absent, or present and empty.
NoRanging(laser) == laser = None \/ Len(laser.ranges) = 0

\* C5: a cycle whose snapshot holds no ranging stream, or a ranging stream
\* with an empty sample sequence, is skipped: after the test of l.268 it is on
\* the skip path and never at a stage of the pipeline.
C5_NoRangingSkipsCycle ==
    \A t \in Cycles :
        (pc[t] \in {"l270", "l274"} /\ NoRanging(frame[t].laser_data)) => pc[t] = "l270"

StatusIs(text) == published.topic = "/eos/neural_status" /\ published.data = text

PipelineTopics == {"/eos/neural_output", "/eos/nav_suggestion"}

Snapshot(t) == <<frame[t].laser_data, frame[t].imu_data, frame[t].odom_data>>

\* C7: the three reads of a snapshot see one state of the cache: while the
\* cycle is between its reads the fields already read still equal the cache,
\* and at the third read the triple equals the cache as it is at that
\* instant, each field the last value written or None.
C7_SnapshotAtomic ==
    /\ [](\A t \in Cycles :
            /\ pc[t] = "l264" => (lock = t /\ frame[t].laser_data = cache.laser)
            /\ pc[t] = "l265" => (lock = t /\ frame[t].laser_data = cache.laser
                                           /\ frame[t].imu_data = cache.imu))
    /\ [][ \A t \in Cycles :
             (pc[t] = "l265" /\ pc'[t] # pc[t]) =>
                 (Snapshot(t)' = <<cache.laser, cache.imu, cache.odom>> /\ cache' = cache) ]_vars

C7_Witness ==
    \E t \in Cycles :
        /\ pc[t] = "l274"
        /\ frame[t].laser_data # None /\ frame[t].imu_data = None /\ frame[t].odom_data # None
        /\ cache.imu # None

\* C8: a cycle holds the lock exactly while it copies the snapshot; a write
\* to the cache happens with the lock free, can happen while a cycle is at a
\* stage, and changes no cycle's local; each stage computes from the cycle's
\* own locals (the input vector from the snapshot, the decision from the
\* output, the messages from the decision).
C8_LockOnlyForCopy ==
    /\ [](\A t \in Cycles : (lock = t) <=> (pc[t] \in {"l264", "l265"}))
    /\ [][ cache' # cache => (lock = 0 /\ lock' = 0 /\ frame' = frame /\ pc' = pc) ]_vars
    /\ [][ \A t \in Cycles :
             /\ (pc[t] = "l274" /\ pc'[t] = "l277") =>
                   frame'[t].neural_input =
                       preprocess_sensor_data(input_size, frame[t].laser_data,
                                              frame[t].imu_data, frame[t].odom_data)
             /\ (pc[t] = "l280" /\ pc'[t] = "l283") =>
                   frame'[t].processed_output = postprocess_neural_output(frame[t].neural_output)
             /\ (pc[t] = "l283" /\ pc'[t] = "l284") =>
                   published' = OutputMsg(frame[t].processed_output)
             /\ (pc[t] = "l284" /\ pc'[t] = "l294") =>
                   published' = NavMsg(frame[t].processed_output) ]_vars

C8_Witness ==
    \E t \in Cycles :
        /\ pc[t] = "l274"
        /\ cache.laser # frame[t].laser_data
        /\ Len(cache.laser.ranges) = 0
        /\ lock = 0

\* ------------------------------------------------ preprocess_sensor_data
ValidIdx(laser) ==
    { j \in 1..Len(laser.ranges) :
        laser.ranges[j] >= laser.range_min /\ laser.ranges[j] <= laser.range_max }

\* The position in the stream of the i-th sample inside [range_min, range_max].
KthValid(laser, i) ==
    CHOOSE j \in ValidIdx(laser) : Cardinality({ k \in ValidIdx(laser) : k <= j }) = i

SameValue(a, b) == a.num * b.den = b.num * a.den

\* C9: preprocess_sensor_data returns exactly inputSize entries, every entry
\* in [0,1], and all entries zero when the ranging stream is absent, empty or
\* has no sample inside [rangeMin, rangeMax].
C9_InputShape ==
    ret.done =>
        /\ Len(ret.value) = call.n
        /\ \A i \in 1..Len(ret.value) :
              ret.value[i].den > 0 /\ 0 <= ret.value[i].num /\ ret.value[i].num <= ret.value[i].den
        /\ (call.laser = None \/ ValidIdx(call.laser) = {}) =>
              \A i \in 1..Len(ret.value) : ret.value[i].num = 0

C9_Witness ==
    /\ ret.done
    /\ call.laser # None
    /\ Cardinality(ValidIdx(call.laser)) > call.n
    /\ Len(call.laser.ranges) > Cardinality(ValidIdx(call.laser))
    /\ \E i \in 1..Len(ret.value) : ret.value[i].num > 0 /\ ret.value[i].num < ret.value[i].den

\* C10: entry i of the input vector is the i-th in-range sample in stream
\* order divided by rangeMax, for i up to the number of in-range samples and
\* up to inputSize, and 0.0 after that: out-of-range samples are removed and
\* later samples shift left.
C10_InputVector ==
    (ret.done /\ call.laser # None) =>
        /\ Len(ret.value) = call.n
        /\ \A i \in 1..call.n :
              IF i <= Cardinality(ValidIdx(call.laser))
              THEN SameValue(ret.value[i],
                             [num |-> call.laser.ranges[KthValid(call.laser, i)],
                              den |-> call.laser.range_max])
              ELSE ret.value[i].num = 0

\* [0.2, 0.4, 1.0] with rangeMax 1.0 and inputSize 5 gives [0.2, 0.4, 1.0, 0.0, 0.0].
C10_Witness ==
    /\ ret.done
    /\ call.n = 5
    /\ call.laser = LaserScan(<<2, 4, 10>>, 1, 10)
    /\ ret.value = << [num |-> 2, den |-> 10], [num |-> 4, den |-> 10],
                      [num |-> 10, den |-> 10], Zero, Zero >>

\* ------------------------------- interpretation and command on their own
\* Scores in tenths: below, at and above each of 0.3, 0.5, 0.8 and the thresholds.
OutValues == {1, 2, 3, 5, 8, 9}

Thresholds == {2, 7}

\* Output vectors of every length from 1 (np.max of an empty vector raises).
OutVectors == SeqsUpTo(OutValues, MaxOutputLen) \ { <<>> }

OutCalls ==
    { [fn |-> "decide", output |-> v, threshold |-> th] :
        v \in OutVectors, th \in Thresholds }

OutInit ==
    /\ \E load_ok \in BOOLEAN : model_loaded = initialize_neural_model(load_ok)
    /\ processing = FALSE
    /\ lock = 0
    /\ cache = [laser |-> None, imu |-> None, odom |-> None]
    /\ pc = [t \in Cycles |-> "idle"]
    /\ frame = [t \in Cycles |-> EmptyFrame]
    /\ published = NoMsg
    /\ crashed = FALSE
    /\ call \in OutCalls
    /\ ret = NoRet

\* l.280 and l.284 on one output vector: the decision, then the Twist built from it.
ApplyDecide ==
    /\ call.fn = "decide"
    /\ ~ret.done
    /\ ret' = [done |-> TRUE,
               processed |-> postprocess_neural_output(call.output),
               twist |-> Twist(call.threshold, postprocess_neural_output(call.output))]
    /\ UNCHANGED <<nodevars, call>>

OutNext == ApplyDecide

OutSpec == OutInit /\ [][OutNext]_vars

\* The movement classes by index, as the claims name them.
ClassAt(i) == CASE i = 1 -> "forward" [] i = 2 -> "left" [] i = 3 -> "right" [] i = 4 -> "stop"

\* i is the lowest index of 1..4 whose score no other of the first four exceeds.
LowestTop(v, i) ==
    /\ \A j \in 1..4 : v[j] <= v[i]
    /\ \A j \in 1..(i - 1) : v[j] < v[i]

\* C11: for an output vector of length at least 4 the movement class is the
\* class at the lowest index of the first four holding their maximum; ties go
\* to the lowest index and entries from the fifth on do not matter.
C11_LowestArgMax ==
    (ret.done /\ Len(call.output) >= 4) =>
        \A i \in 1..4 :
            LowestTop(call.output, i) => ret.processed.movement_decision = ClassAt(i)

C11_Witness ==
    /\ ret.done
    /\ Len(call.output) >= 5
    /\ call.output[1] < call.output[2]
    /\ call.output[2] = call.output[3]
    /\ call.output[4] < call.output[2]
    /\ call.output[5] > call.output[2]
    /\ ret.processed.movement_decision = "left"

\* C12: whenever every score of the output vector is at most 0.3, the command
\* is zero on both axes, whatever the class and whatever the threshold.
C12_LowConfidenceStops ==
    (ret.done /\ \A i \in 1..Len(call.output) : call.output[i] <= 3) =>
        ret.twist = [linear_x |-> 0, angular_z |-> 0]

\* C13: forward above the threshold drives at 0.3 * confidence, left turns at
\* +0.5 * confidence, right at -0.5 * confidence, and every other decision
\* (stop, unknown, confidence at or below the threshold) is the zero command.
C13_CommandTable ==
    ret.done =>
        LET movement   == ret.processed.movement_decision
            confidence == ret.processed.confidence
            above      == confidence > call.threshold
        IN  /\ (movement = "forward" /\ above) =>
                   ret.twist = [linear_x |-> 3 * confidence, angular_z |-> 0]
            /\ (movement = "left" /\ above) =>
                   ret.twist = [linear_x |-> 0, angular_z |-> 5 * confidence]
            /\ (movement = "right" /\ above) =>
                   ret.twist = [linear_x |-> 0, angular_z |-> 0 - 5 * confidence]
            /\ (movement \in {"stop", "unknown"} \/ ~above) =>
                   ret.twist = [linear_x |-> 0, angular_z |-> 0]

\* [0.9, 0.1, 0.1, 0.1, 0.2] at threshold 0.7 drives forward at 0.27.
C13_Witness ==
    /\ ret.done
    /\ call.output = <<9, 1, 1, 1, 2>>
    /\ call.threshold = 7
    /\ ret.twist = [linear_x |-> 27, angular_z |-> 0]

\* C14: the confidence is the largest of all M scores, the class is unknown
\* exactly when M < 4, and the safety score is the last score when M >= 5 and
\* 0.5 otherwise.
C14_DecisionFields ==
    ret.done =>
        LET v == call.output
            M == Len(call.output)
            d == ret.processed
        IN  /\ \E i \in 1..M : v[i] = d.confidence
            /\ \A i \in 1..M : v[i] <= d.confidence
            /\ (d.movement_decision = "unknown") <=> (M < 4)
            /\ d.safety_score = IF M >= 5 THEN v[M] ELSE 5

\* The last of five scores is the largest: it is the confidence, above the
\* score of the selected class, and the safety score.
C14_Witness ==
    /\ ret.done
    /\ Len(call.output) = 5
    /\ \A j \in 1..4 : call.output[j] < call.output[5]
    /\ ret.processed.movement_decision # "unknown"
    /\ ret.processed.confidence = call.output[5]
    /\ ret.processed.safety_score = call.output[5]

\* The largest score of a vector, stated without the recursion.
IsMax(v, c) == (\E i \in 1..Len(v) : v[i] = c) /\ (\A i \in 1..Len(v) : v[i] <= c)

\* C15: the label is confident_navigation above 0.8, cautious_navigation in
\* (0.5, 0.8], exploration in (0.3, 0.5] and uncertain at or below 0.3; a
\* confidence on a boundary belongs to the lower band.
C15_BehaviorBands ==
    ret.done =>
        \A c \in OutValues :
            IsMax(call.output, c) =>
                ret.processed.behavioral_context =
                    CASE c > 8            -> "confident_navigation"
                      [] c > 5 /\ c <= 8  -> "cautious_navigation"
                      [] c > 3 /\ c <= 5  -> "exploration"
                      [] c <= 3           -> "uncertain"

\* A confidence of exactly 0.8 is cautious_navigation.
C15_Witness ==
    /\ ret.done
    /\ IsMax(call.output, 8)
    /\ ret.processed.behavioral_context = "cautious_navigation"

\* C17: model_loaded is true after initialization whether or not loading
\* raised, no step changes it, a tick is dropped at the guard only because
\* the processing flag is set, and no status message reports ERROR.
C17_ModelLoadNeverFatal ==
    /\ [](model_loaded /\ ~StatusIs("ERROR"))
    /\ [][ /\ model_loaded' = model_loaded
           /\ \A t \in Cycles :
                  (pc[t] = "l255" /\ pc'[t] = "idle") => processing ]_vars

\* A tick passed the guard and a status message said READY.
C17_Witness ==
    /\ model_loaded
    /\ StatusIs("READY")
    /\ \E t \in Cycles : pc[t] = "l258"

\* C18: a status tick can fire in every state, publishes one status message,
\* changes neither the processing flag nor model_loaded nor the cache nor any
\* cycle, and its text is PROCESSING exactly when the flag is set at that
\* moment and READY otherwise.
C18_StatusTick ==
    /\ [](ENABLED status_callback)
    /\ [][ published'.topic = "/eos/neural_status" =>
              /\ published'.data = IF processing THEN "PROCESSING" ELSE "READY"
              /\ UNCHANGED <<model_loaded, processing, lock, cache, pc, frame, crashed>> ]_vars

\* A status tick during a cycle's stages reported PROCESSING.
C18_Witness ==
    /\ StatusIs("PROCESSING")
    /\ processing
    /\ \E t \in Cycles : pc[t] \in Stages

\* C19: the branch taken after the snapshot is the skip exactly when the
\* ranging field of the snapshot is absent, and the input vector of l.274 is
\* the one every other inertial and odometry field would have given.
C19_RangingOnly ==
    [][ \A t \in Cycles :
          /\ (pc[t] = "l265" /\ pc'[t] # "l265") =>
                 ((pc'[t] = "l270") <=> (frame[t].laser_data = None))
          /\ (pc[t] = "l274" /\ pc'[t] = "l277") =>
                 \A i \in ImuMsgs \cup {None} : \A o \in OdomMsgs \cup {None} :
                     frame'[t].neural_input =
                         preprocess_sensor_data(input_size, frame[t].laser_data, i, o) ]_vars

\* A cycle preprocessed a snapshot with a scan and an inertial message
\* but no odometry.
C19_Witness ==
    \E t \in Cycles :
        /\ pc[t] = "l274"
        /\ frame[t].laser_data # None /\ Len(frame[t].laser_data.ranges) > 0
        /\ frame[t].imu_data # None /\ frame[t].odom_data = None

\* C20: an external command of any length is accepted in every state and its
\* handler changes neither the cache nor the processing flag nor model_loaded
\* nor any cycle, and publishes nothing.
C20_CommandIsInert ==
    /\ [](\A data \in CommandData : ENABLED neural_command_callback(data))
    /\ [][ (\E data \in CommandData : neural_command_callback(data)) =>
              /\ UNCHANGED <<model_loaded, processing, lock, cache, pc, frame, crashed>>
              /\ published' = NoMsg ]_vars

\* A step arrived between the two publications of a cycle and left the cycle
\* where it was, the flag set.
C20_Witness ==
    /\ processing
    /\ published = NoMsg
    /\ \E t \in Cycles : pc[t] = "l284" /\ frame[t].processed_output # None

\* The lines a cycle can go to next from each line: the chain of a complete
\* cycle, the skip after the snapshot and the handler after a stage.
Successors(l) ==
    CASE l = "idle" -> {"l255"}
      [] l = "l255" -> {"idle", "l258"}
      [] l = "l258" -> {"l262"}
      [] l = "l262" -> {"l264"}
      [] l = "l264" -> {"l265"}
      [] l = "l265" -> {"l270", "l274"}
      [] l = "l270" -> {"l294"}
      [] l = "l274" -> {"l277", "l291"}
      [] l = "l277" -> {"l280", "l291"}
      [] l = "l280" -> {"l283", "l291"}
      [] l = "l283" -> {"l284", "l291"}
      [] l = "l284" -> {"l294", "l291"}
      [] l = "l291" -> {"l294"}
      [] l = "l294" -> {"idle"}

\* C21: a cycle goes through snapshot, preprocessing, inference,
\* interpretation, publication of the raw output and publication of the
\* velocity command in that order, one step each, leaving the chain only to
\* the skip or to the handler; the raw output published has output_size
\* entries and the velocity command published next by the same cycle is the
\* one derived from that same vector.
C21_PipelineOrder ==
    [][ \A t \in Cycles :
          /\ pc'[t] # pc[t] => pc'[t] \in Successors(pc[t])
          /\ (pc[t] = "l283" /\ pc'[t] = "l284") =>
                 /\ published'.topic = "/eos/neural_output"
                 /\ Len(published'.data) = output_size
                 /\ published'.data = frame'[t].processed_output.raw_output
          /\ (pc[t] = "l284" /\ pc'[t] = "l284") => frame'[t] = frame[t]
          /\ (pc[t] = "l284" /\ pc'[t] = "l294") =>
                 /\ published'.topic = "/eos/nav_suggestion"
                 /\ published'.data =
                        Twist(confidence_threshold,
                              postprocess_neural_output(frame[t].processed_output.raw_output))
          /\ (pc'[t] # pc[t] /\ pc'[t] \notin {"l284", "l294"}) =>
                 published'.topic \notin PipelineTopics ]_vars

\* A complete cycle has just published the command of its forward decision.
C21_Witness ==
    /\ published = [topic |-> "/eos/nav_suggestion",
                    data |-> [linear_x |-> 27, angular_z |-> 0]]
    /\ \E t \in Cycles : pc[t] = "l294" /\ ~frame[t].exc

\* C22: each writer replaces its own cache entry by the message it was given
\* and leaves the other two alone, an entry that holds a message never goes
\* back to absent, and a step of a cycle or a status tick changes no entry.
C22_CacheFrame ==
    [][ /\ \A msg \in ScanMsgs :
               laser_callback(msg) => cache' = [cache EXCEPT !.laser = msg]
        /\ \A msg \in ImuMsgs :
               imu_callback(msg) => cache' = [cache EXCEPT !.imu = msg]
        /\ \A msg \in OdomMsgs :
               odom_callback(msg) => cache' = [cache EXCEPT !.odom = msg]
        /\ cache'.laser # cache.laser =>
               cache'.imu = cache.imu /\ cache'.odom = cache.odom
        /\ cache'.imu # cache.imu =>
               cache'.laser = cache.laser /\ cache'.odom = cache.odom
        /\ cache'.odom # cache.odom =>
               cache'.laser = cache.laser /\ cache'.imu = cache.imu
        /\ cache.laser # None => cache'.laser # None
        /\ cache.imu # None => cache'.imu # None
        /\ cache.odom # None => cache'.odom # None
        /\ (pc' # pc \/ processing' # processing
               \/ published'.topic = "/eos/neural_status") => cache' = cache ]_vars

\* A scan was replaced by a later one after a cycle copied it, with the
\* inertial and odometry entries already written.
C22_Witness ==
    /\ cache.laser = LaserScan(<<>>, 1, 10)
    /\ cache.imu # None
    /\ cache.odom # None
    /\ \E t \in Cycles :
           /\ pc[t] = "l274"
           /\ frame[t].laser_data = LaserScan(<<2, 4, 10>>, 1, 10)
           /\ frame[t].imu_data # None

\* C23: the lock is held only by a cycle copying its snapshot, the holder's
\* next line never waits for anything, so a held lock is always released;
\* whenever the lock is free every writer can take it, whatever the cycles
\* are doing (at a stage, in the handler after a failure, returned).
C23_LockAlwaysReleased ==
    /\ [](\A t \in Cycles :
              /\ (lock = t) <=> (pc[t] \in {"l264", "l265"})
              /\ lock = t => ENABLED (ReadImu(t) \/ ReadOdomRelease(t)))
    /\ [](lock = 0 =>
              /\ \A msg \in ScanMsgs : ENABLED laser_callback(msg)
              /\ \A msg \in ImuMsgs : ENABLED imu_callback(msg)
              /\ \A msg \in OdomMsgs : ENABLED odom_callback(msg))
    /\ (lock # 0) ~> (lock = 0)

\* One cycle is in the handler after a failure while another holds the lock.
C23_Witness ==
    \E t \in Cycles : \E u \in Cycles \ {t} :
        /\ pc[t] = "l291"
        /\ pc[u] = "l265"
        /\ lock = u

\* No arm of the chain of l.438-446 assigns a velocity.
NoArmFires ==
    /\ ret.processed.confidence <= call.threshold
    /\ ret.processed.movement_decision # "stop"
    /\ ret.processed.confidence >= 3

\* C24: for scores in [0, 1] the linear velocity lies in [0, 0.3] and the
\* angular velocity in [-0.5, 0.5], and when no arm assigns a velocity both
\* components are the 0 a Twist is constructed with.
C24_VelocityBounded ==
    ret.done =>
        /\ ret.twist.linear_x >= 0
        /\ ret.twist.linear_x <= 30
        /\ ret.twist.angular_z >= 0 - 50
        /\ ret.twist.angular_z <= 50
        /\ NoArmFires => ret.twist = [linear_x |-> 0, angular_z |-> 0]

\* A forward decision of confidence 0.5 under threshold 0.7: no arm fires.
C24_Witness ==
    /\ ret.done
    /\ call.threshold = 7
    /\ ret.processed.movement_decision = "forward"
    /\ ret.processed.confidence = 5
    /\ NoArmFires
    /\ ret.twist = [linear_x |-> 0, angular_z |-> 0]

\* C25: at most one component of a command is non-zero; a component is
\* non-zero only for class forward, left or right with a confidence strictly
\* above the threshold; the angular velocity is positive only for left and
\* negative only for right.
C25_OneAxisAboveThreshold ==
    ret.done =>
        LET movement   == ret.processed.movement_decision
            confidence == ret.processed.confidence
            linear     == ret.twist.linear_x
            angular    == ret.twist.angular_z
        IN  /\ linear = 0 \/ angular = 0
            /\ (linear # 0 \/ angular # 0) =>
                   /\ movement \in {"forward", "left", "right"}
                   /\ confidence > call.threshold
            /\ linear # 0 => movement = "forward"
            /\ angular > 0 => movement = "left"
            /\ angular < 0 => movement = "right"

\* A left decision whose confidence equals the threshold is not commanded.
C25_Witness ==
    /\ ret.done
    /\ ret.processed.movement_decision = "left"
    /\ ret.processed.confidence = call.threshold
    /\ ret.twist = [linear_x |-> 0, angular_z |-> 0]

\* ------------------------------------------ SNNModel (src/python/snn_model.py)
\* np.random.randn: the weights an instance can be constructed with.
WeightValues == {-1, 2}

SensorValues == {-2, 1, 3}

\* np.tanh kept symbolic: one value per argument.
Tanh(z) == [tanh |-> z]

RECURSIVE SumTo(_, _)
\* f[1] + ... + f[k]
SumTo(f, k) == IF k = 0 THEN 0 ELSE SumTo(f, k - 1) + f[k]

\* np.dot(weights, input_data), one entry per row of the matrix.
Dot(weights, input_data) ==
    [i \in 1..Len(weights) |->
        SumTo([j \in 1..Len(input_data) |-> weights[i][j] * input_data[j]],
              Len(input_data))]

\* process with a weight update after the activation.
process_learns(self, sensor_data) ==
    LET n == self.neuron_count
        input_data ==
            IF Len(sensor_data) < n
            THEN sensor_data \o [j \in 1..(n - Len(sensor_data)) |-> 0]
            ELSE SubSeq(sensor_data, 1, n)
    IN  [ self       |-> [self EXCEPT !.weights =
                             [i \in 1..n |-> [j \in 1..n |-> self.weights[i][j] + input_data[j]]]],
          input_data |-> input_data,
          output     |-> [i \in 1..n |-> Tanh(Dot(self.weights, input_data)[i])] ]

\* SNNModel.process (l.16-36): the instance after the call, the adjusted
\* input of l.23-31 and the list returned.
process(self, sensor_data) ==
    LET n == self.neuron_count
        input_data ==
            IF Len(sensor_data) < n
            THEN sensor_data \o [j \in 1..(n - Len(sensor_data)) |-> 0]
            ELSE SubSeq(sensor_data, 1, n)
    IN  [ self       |-> self,
          input_data |-> input_data,
          output     |-> [i \in 1..n |-> Tanh(Dot(self.weights, input_data)[i])] ]

\* SNNModel.__init__ (l.5-14): a square matrix of neuron_count rows.
SNNModels ==
    UNION { { [neuron_count |-> n, weights |-> w] :
                w \in [1..n -> [1..n -> WeightValues]] } : n \in 1..MaxNeurons }

SnnCalls ==
    { [fn |-> "process", self |-> m, sensor_data |-> x] :
        m \in SNNModels, x \in SeqsUpTo(SensorValues, MaxSensorLen) }

SnnInit ==
    /\ \E load_ok \in BOOLEAN : model_loaded = initialize_neural_model(load_ok)
    /\ processing = FALSE
    /\ lock = 0
    /\ cache = [laser |-> None, imu |-> None, odom |-> None]
    /\ pc = [t \in Cycles |-> "idle"]
    /\ frame = [t \in Cycles |-> EmptyFrame]
    /\ published = NoMsg
    /\ crashed = FALSE
    /\ call \in SnnCalls
    /\ ret = NoRet

\* One call of process on the instance, at most twice with the same input.
CallProcess ==
    /\ call.fn = "process"
    /\ IF ret.done THEN ret.calls < 2 ELSE TRUE
    /\ LET r == process(call.self, call.sensor_data)
       IN  /\ call' = [call EXCEPT !.self = r.self]
           /\ ret' = [done       |-> TRUE,
                      calls      |-> IF ret.done THEN ret.calls + 1 ELSE 1,
                      input_data |-> r.input_data,
                      value      |-> r.output,
                      previous   |-> IF ret.done THEN ret.value ELSE <<>>]
    /\ UNCHANGED nodevars

SnnNext == CallProcess

SnnSpec == SnnInit /\ [][SnnNext]_vars

\* C26: process takes an input of any length; the input it works on has
\* neuron_count entries, the given ones in order followed by zeros when the
\* input was shorter, the first neuron_count of them when it was longer; the
\* output has neuron_count entries, entry i being the activation of the
\* weighted sum of row i over the entries given; a call leaves the weights as
\* they were and a second call with the same input returns the same output.
C26_ProcessShape ==
    /\ [](ret.done =>
            LET n == call.self.neuron_count
                x == call.sensor_data
                k == Min(Len(call.sensor_data), call.self.neuron_count)
            IN  /\ Len(ret.input_data) = n
                /\ \A j \in 1..n :
                       ret.input_data[j] = IF j <= Len(x) THEN x[j] ELSE 0
                /\ Len(ret.value) = n
                /\ \A i \in 1..n :
                       ret.value[i] =
                           Tanh(SumTo([j \in 1..k |-> call.self.weights[i][j] * x[j]], k))
                /\ ret.calls = 2 => ret.value = ret.previous)
    /\ [][call'.self = call.self]_vars

\* A second call on an input longer than neuron_count returned what the first
\* did, with a non-zero weighted sum.
C26_Witness ==
    /\ ret.done
    /\ ret.calls = 2
    /\ call.self.neuron_count = 2
    /\ Len(call.sensor_data) = 3
    /\ ret.input_data = SubSeq(call.sensor_data, 1, 2)
    /\ ret.value = ret.previous
    /\ ret.value[1] # Tanh(0)

====
